---- MODULE Spec2Model ----
(***************************************************************************)
(* Path Library (paths app): the progress rollup of a Path's plan          *)
(* (Phases > Steps > ActionItems), the ActionItem and Path status          *)
(* operations of the REST API, and the requests' steps against the store.  *)
(***************************************************************************)
EXTENDS Integers, Sequences, FiniteSets, TLC

\* ------------------------------------------------------------------ bounds
\* Rollup inputs: the most ActionItems in Step 1 of an input tree, and the
\* most in each other Step.
MaxLeaves == 50
MaxSmall == 1
\* The clock runs from 1 to MaxTime.
MaxTime == 2
\* ActionItem ids of the plan operations.
NumItems == 2
\* The most ActionItems of a plan that is asked about, and the most
\* fragments of a query.
MaxPlan == 6
MaxWords == 2

\* A timestamp column holding NULL; the clock's ticks are 1, 2, ...
NULL == 0

\* ------------------------------------------------- Python float arithmetic
\* Python's int / int, float * int and int(float) on IEEE-754 doubles
\* (53-bit significand, round to nearest, ties to even).  A double is held
\* as [z, m]: m is the significand in five limbs of 13 bits, most
\* significant first, and the value is m * 2^(-52 - z).

RECURSIVE Pow2(_)
Pow2(n) == IF n = 0 THEN 1 ELSE 2 * Pow2(n - 1)

RECURSIVE BitLen(_)
BitLen(n) == IF n = 0 THEN 0 ELSE 1 + BitLen(n \div 2)

\* least z >= 0 with c * 2^z >= t
RECURSIVE NormShift(_, _)
NormShift(c, t) == IF c >= t THEN 0 ELSE 1 + NormShift(2 * c, t)

\* carries the limbs' overflow upwards; the top limb keeps what is left
Carry(l) ==
    LET B  == Pow2(13)
        v5 == l[5] % B
        s4 == l[4] + (l[5] \div B)
        v4 == s4 % B
        s3 == l[3] + (s4 \div B)
        v3 == s3 % B
        s2 == l[2] + (s3 \div B)
        v2 == s2 % B
        v1 == l[1] + (s2 \div B)
    IN  <<v1, v2, v3, v4, v5>>

\* c / t for integers 0 <= c <= t, t > 0: the nearest double
PyTrueDiv(c, t) ==
    IF c = 0 THEN [z |-> 0, m |-> <<0, 0, 0, 0, 0>>]
    ELSE
    LET B  == Pow2(13)
        z  == NormShift(c, t)
        r0 == c * Pow2(z) - t
        d1 == (r0 * B) \div t
        r1 == (r0 * B) % t
        d2 == (r1 * B) \div t
        r2 == (r1 * B) % t
        d3 == (r2 * B) \div t
        r3 == (r2 * B) % t
        d4 == (r3 * B) \div t
        r4 == (r3 * B) % t
        up == (2 * r4 > t) \/ (2 * r4 = t /\ d4 % 2 = 1)
    IN  [z |-> z, m |-> Carry(<<1, d1, d2, d3, d4 + (IF up THEN 1 ELSE 0)>>)]

\* f * k for a double f and an integer 0 < k < 2^13: the exact product
\* rounded to 53 significant bits
PyMul(f, k) ==
    LET raw  == Carry(<<f.m[1] * k, f.m[2] * k, f.m[3] * k, f.m[4] * k, f.m[5] * k>>)
        nb   == BitLen(raw[1])
        drop == IF nb > 1 THEN nb - 1 ELSE 0
        unit == Pow2(drop)
        low  == raw[5] % unit
        odd  == IF drop < 13 THEN (raw[5] \div unit) % 2 = 1 ELSE raw[4] % 2 = 1
        up   == drop > 0 /\ (2 * low > unit \/ (2 * low = unit /\ odd))
    IN  [z |-> f.z,
         m |-> Carry(<<raw[1], raw[2], raw[3], raw[4],
                       raw[5] - low + (IF up THEN unit ELSE 0)>>)]

\* int(f) for a double 0 <= f < 2^13: truncation toward zero
PyInt(f) == f.m[1] \div Pow2(f.z)

\* ------------------------------------------------------------ the rollup
\* A plan tree as the rollup reads it: tree[phase][step] is the Step's
\* action_items queryset, held by the two counts the code asks of it.
QCount(q) == q.total
QDoneCount(q) == q.done

RECURSIVE SumOver(_, _)
SumOver(f, S) ==
    IF S = {} THEN 0
    ELSE LET x == CHOOSE y \in S : TRUE IN f[x] + SumOver(f, S \ {x})

\* int((completed_items / total_items) * 100), and 0 without items
Percent(completed_items, total_items) ==
    IF total_items = 0 THEN 0
    ELSE PyInt(PyMul(PyTrueDiv(completed_items, total_items), 100))

\* Step.calculate_progress
Step_calculate_progress(q) == Percent(QDoneCount(q), QCount(q))

PhaseTotal(ph) == SumOver([s \in DOMAIN ph |-> QCount(ph[s])], DOMAIN ph)
PhaseDone(ph) == SumOver([s \in DOMAIN ph |-> QDoneCount(ph[s])], DOMAIN ph)

\* Phase.calculate_progress
Phase_calculate_progress(ph) == Percent(PhaseDone(ph), PhaseTotal(ph))

PathTotal(tr) == SumOver([p \in DOMAIN tr |-> PhaseTotal(tr[p])], DOMAIN tr)
PathDone(tr) == SumOver([p \in DOMAIN tr |-> PhaseDone(tr[p])], DOMAIN tr)

\* Path.calculate_progress
Path_calculate_progress(tr) == Percent(PathDone(tr), PathTotal(tr))

\* ------------------------------------------------------------------ state
VARIABLES
    now,      \* timezone.now(), in ticks
    path,     \* the Path row
    phases,   \* the Path's Phases: the set of their ids
    steps,    \* the Steps: Step id -> its Phase id
    items,    \* the ActionItems: ActionItem id -> its row
    last,     \* the last completed request: what it was and what it met
    req,      \* the requests in flight, step by step against the store
    tree,     \* a plan tree given to the rollup functions
    out,      \* what the rollup functions or the context builder returned
    library,  \* the Issues, RootCauses and Initiatives
    comments  \* the PathComments: comment id -> its row

vars == <<now, path, phases, steps, items, last, req, tree, out, library, comments>>

PathStatus == {"active", "on_hold", "completed", "archived"}
ItemStatus == {"todo", "in_progress", "blocked", "done"}
PhaseIds == {1, 2}
StepIds == {1, 2}
ItemIds == 1..NumItems
Times == 1..MaxTime

\* Path row as Path creation leaves it (PathCreateSerializer takes status;
\* the timestamps and the percentage keep the model's defaults).
NewPath(st) ==
    [status |-> st, started_at |-> NULL, paused_at |-> NULL,
     completed_at |-> NULL, progress_percentage |-> 0,
     issue |-> 1, root_cause |-> 1, initiative |-> 1]

\* The chain a Path made by NewPath selects: one Issue, its RootCause and
\* that one's Initiative (RootCause id -> its Issue, Initiative id -> its
\* RootCause).
SeedLibrary == [issues |-> {1}, root_causes |-> (1 :> 1), initiatives |-> (1 :> 1)]

\* The stored state: the Path's columns, its plan, the clock.
TypeOK ==
    /\ now \in Times
    /\ path \in [status : PathStatus, started_at : {NULL} \cup Times,
                 paused_at : {NULL} \cup Times, completed_at : {NULL} \cup Times,
                 progress_percentage : Nat,
                 issue : library.issues, root_cause : DOMAIN library.root_causes,
                 initiative : DOMAIN library.initiatives]
    /\ \A r \in DOMAIN library.root_causes : library.root_causes[r] \in library.issues
    /\ \A n \in DOMAIN library.initiatives :
           library.initiatives[n] \in DOMAIN library.root_causes
    /\ phases \subseteq PhaseIds
    /\ DOMAIN steps \subseteq StepIds
    /\ \A s \in DOMAIN steps : steps[s] \in phases
    /\ DOMAIN items \subseteq ItemIds \cup {NumItems + r : r \in {1, 2}} \cup 1..MaxPlan
    /\ \A i \in DOMAIN items :
           /\ items[i].step \in DOMAIN steps
           /\ items[i].status \in ItemStatus
           /\ items[i].completed_at \in {NULL} \cup Times

NoRequest == [op |-> "none"]
NoOutput == [ready |-> FALSE]

\* step.action_items of a store with the ActionItems it
action_items(it, s) ==
    [total |-> Cardinality({i \in DOMAIN it : it[i].step = s}),
     done  |-> Cardinality({i \in DOMAIN it : it[i].step = s /\ it[i].status = "done"})]

\* The plan tree of a store (Phases ph, Steps st, ActionItems it), as the
\* rollup reads it: path.phases.all(), phase.steps.all(), step.action_items.
TreeOf(ph, st, it) ==
    [p \in ph |-> [s \in {x \in DOMAIN st : st[x] = p} |-> action_items(it, s)]]

StoredTree == TreeOf(phases, steps, items)

\* ------------------------------------------------- the rollup on its own
BigCounts == {q \in [total : 0..MaxLeaves, done : 0..MaxLeaves] : q.done <= q.total}
SmallCounts == {q \in [total : 0..MaxSmall, done : 0..MaxSmall] : q.done <= q.total}

Phase1Trees ==
    {<<>>} \cup {(1 :> a) : a \in BigCounts} \cup {(2 :> b) : b \in SmallCounts}
           \cup {(1 :> a) @@ (2 :> b) : a \in BigCounts, b \in SmallCounts}
Phase2Trees == {<<>>} \cup {(3 :> b) : b \in SmallCounts}
RollupTrees ==
    {<<>>} \cup {(1 :> x) : x \in Phase1Trees} \cup {(2 :> y) : y \in Phase2Trees}
           \cup {(1 :> x) @@ (2 :> y) : x \in Phase1Trees, y \in Phase2Trees}

TreeSteps(tr) == UNION {DOMAIN tr[p] : p \in DOMAIN tr}
StepQ(tr, s) == LET p == CHOOSE x \in DOMAIN tr : s \in DOMAIN tr[x] IN tr[p][s]

\* Path.update_progress: the persisted percentage after a recomputation
Path_update_progress(p, tr) ==
    [p EXCEPT !.progress_percentage = Path_calculate_progress(tr)]

\* What PathDetailSerializer reports of a tree: the Path's percentage and
\* the progress field of each Phase and Step.
SerializedProgress(p, tr) ==
    [ready |-> TRUE,
     path  |-> p.progress_percentage,
     phase |-> [x \in DOMAIN tr |-> Phase_calculate_progress(tr[x])],
     step  |-> [s \in TreeSteps(tr) |-> Step_calculate_progress(StepQ(tr, s))]]

InitRollup ==
    /\ tree \in RollupTrees
    /\ out = NoOutput
    /\ library = SeedLibrary
    /\ comments = <<>>
    /\ now = 1
    /\ path = NewPath("active")
    /\ phases = {}
    /\ steps = <<>>
    /\ items = <<>>
    /\ last = NoRequest
    /\ req = <<>>

\* The Path's percentage is recomputed and persisted, and the Path is read
\* back through PathDetailSerializer.
Rollup ==
    /\ ~out.ready
    /\ path' = Path_update_progress(path, tree)
    /\ out' = SerializedProgress(path', tree)
    /\ UNCHANGED <<now, phases, steps, items, last, req, tree, library, comments>>

NextRollup == Rollup

SpecRollup == InitRollup /\ [][NextRollup]_vars

Floor100(d, t) == (100 * d) \div t

\* C4: with total > 0 ActionItems of which completed are done, the rollup at
\* Step and at Path level is exactly floor(100 * completed / total).
C4_RollupIsFloor ==
    out.ready =>
        /\ PathTotal(tree) > 0 =>
               out.path = Floor100(PathDone(tree), PathTotal(tree))
        /\ \A s \in TreeSteps(tree) :
               StepQ(tree, s).total > 0 =>
                   out.step[s] = Floor100(StepQ(tree, s).done, StepQ(tree, s).total)

\* C5: the percentage of a Phase and of a Path is floor(100 * D / T) over the
\* done and total counts of all ActionItems under all of its Steps, never the
\* average of the children's percentages.
C5_CountWeighted ==
    out.ready =>
        /\ \A p \in DOMAIN tree :
               out.phase[p] = IF PhaseTotal(tree[p]) = 0 THEN 0
                              ELSE Floor100(PhaseDone(tree[p]), PhaseTotal(tree[p]))
        /\ out.path = IF PathTotal(tree) = 0 THEN 0
                      ELSE Floor100(PathDone(tree), PathTotal(tree))

\* Computed over one consistent view of a tree, the rollup at Step, Phase and
\* Path level is an integer in 0..100 and is 0 for a container without
\* ActionItems.
RollupInRange ==
    out.ready =>
        /\ out.path \in 0..100
        /\ PathTotal(tree) = 0 => out.path = 0
        /\ \A p \in DOMAIN tree :
               /\ out.phase[p] \in 0..100
               /\ PhaseTotal(tree[p]) = 0 => out.phase[p] = 0
        /\ \A s \in TreeSteps(tree) :
               /\ out.step[s] \in 0..100
               /\ StepQ(tree, s).total = 0 => out.step[s] = 0

\* ------------------------------------------------------ the plan requests
\* What a client may send as an ActionItem status, "cancelled" being no
\* choice of the API.
ItemStatusPayloads == ItemStatus \cup {"cancelled"}
\* What a client may send as an ActionItem's completed_at.
ItemTimePayloads == {NULL, now}

\* f without the keys outside S
Restrict(f, S) == [x \in DOMAIN f \cap S |-> f[x]]

\* a save that completes the Path when its plan is done
ActionItem_save_CompletesAtFull(p, ph, st, it) ==
    LET q == Path_update_progress(p, TreeOf(ph, st, it))
    IN  IF q.progress_percentage = 100
        THEN [q EXCEPT !.status = "completed", !.completed_at = now]
        ELSE q

\* ActionItem.save: the row is written, then the Path of the item's Step
\* recomputes and persists its percentage.  The Path row after the save.
ActionItem_save(p, ph, st, it) == Path_update_progress(p, TreeOf(ph, st, it))

StatusUnchanged == UNCHANGED <<now, req, tree, out, library, comments>>

\* POST /action-items/ through ActionItemSerializer
ActionItemCreate(i, s, status, completed_at) ==
    /\ i \notin DOMAIN items
    /\ s \in DOMAIN steps
    /\ items' = items @@ (i :> [step |-> s, status |-> status,
                                completed_at |-> completed_at])
    /\ path' = ActionItem_save(path, phases, steps, items')
    /\ last' = [op |-> "item_create", id |-> i]
    /\ UNCHANGED <<phases, steps>>
    /\ StatusUnchanged

\* PUT or PATCH /action-items/{id}/ through ActionItemSerializer, one of
\* step, status and completed_at in the payload
ActionItemUpdate(i, f, v) ==
    /\ i \in DOMAIN items
    /\ \/ f = "step" /\ v \in DOMAIN steps
       \/ f = "status" /\ v \in ItemStatus
       \/ f = "completed_at"
    /\ items' = [items EXCEPT ![i][f] = v]
    /\ path' = ActionItem_save(path, phases, steps, items')
    /\ last' = [op |-> "item_update", id |-> i]
    /\ UNCHANGED <<phases, steps>>
    /\ StatusUnchanged

\* a toggle that completes a todo item alone
ActionItem_toggle_status_TodoOnly(item, t) ==
    IF item.status = "todo"
    THEN [item EXCEPT !.status = "done", !.completed_at = t]
    ELSE [item EXCEPT !.status = "todo", !.completed_at = NULL]

\* ActionItemViewSet.toggle_status: the row it saves
ActionItem_toggle_status(item, t) ==
    IF item.status = "done"
    THEN [item EXCEPT !.status = "todo", !.completed_at = NULL]
    ELSE [item EXCEPT !.status = "done", !.completed_at = t]

\* POST /action-items/{id}/toggle_status/
ActionItemToggleStatus(i) ==
    /\ i \in DOMAIN items
    /\ items' = [items EXCEPT ![i] = ActionItem_toggle_status(items[i], now)]
    /\ path' = ActionItem_save(path, phases, steps, items')
    /\ last' = [op |-> "item_toggle_status", id |-> i]
    /\ UNCHANGED <<phases, steps>>
    /\ StatusUnchanged

\* ActionItemViewSet.update_status, after validation: the row it saves
ActionItem_update_status(item, status, t) ==
    [item EXCEPT !.status = status,
                 !.completed_at = IF status = "done" THEN t ELSE NULL]

\* POST /action-items/{id}/update_status/
ActionItemUpdateStatus(i, status) ==
    /\ i \in DOMAIN items
    /\ IF status \in ItemStatus
       THEN /\ items' = [items EXCEPT ![i] = ActionItem_update_status(items[i], status, now)]
            /\ path' = ActionItem_save(path, phases, steps, items')
       ELSE UNCHANGED <<items, path>>
    /\ last' = [op |-> "item_update_status", id |-> i]
    /\ UNCHANGED <<phases, steps>>
    /\ StatusUnchanged

\* DELETE /action-items/{id}/: the row is deleted; no save runs
ActionItemDelete(i) ==
    /\ i \in DOMAIN items
    /\ items' = Restrict(items, DOMAIN items \ {i})
    /\ last' = [op |-> "item_delete", id |-> i]
    /\ UNCHANGED <<path, phases, steps>>
    /\ StatusUnchanged

\* POST /phases/
PhaseCreate(p) ==
    /\ p \notin phases
    /\ phases' = phases \cup {p}
    /\ last' = [op |-> "phase_create", id |-> p]
    /\ UNCHANGED <<path, steps, items>>
    /\ StatusUnchanged

\* POST /steps/
StepCreate(s, p) ==
    /\ s \notin DOMAIN steps
    /\ p \in phases
    /\ steps' = steps @@ (s :> p)
    /\ last' = [op |-> "step_create", id |-> s]
    /\ UNCHANGED <<path, phases, items>>
    /\ StatusUnchanged

\* PUT or PATCH /steps/{id}/ through StepSerializer with phase in the
\* payload; Step has no save hook
StepUpdate(s, p) ==
    /\ s \in DOMAIN steps
    /\ p \in phases
    /\ steps' = [steps EXCEPT ![s] = p]
    /\ last' = [op |-> "step_update", id |-> s]
    /\ UNCHANGED <<path, phases, items>>
    /\ StatusUnchanged

\* DELETE /steps/{id}/: the Step and, by cascade, its ActionItems
StepDelete(s) ==
    /\ s \in DOMAIN steps
    /\ steps' = Restrict(steps, DOMAIN steps \ {s})
    /\ items' = Restrict(items, {i \in DOMAIN items : items[i].step # s})
    /\ last' = [op |-> "step_delete", id |-> s]
    /\ UNCHANGED <<path, phases>>
    /\ StatusUnchanged

\* DELETE /phases/{id}/: the Phase and, by cascade, its Steps and their
\* ActionItems
PhaseDelete(p) ==
    /\ p \in phases
    /\ phases' = phases \ {p}
    /\ steps' = Restrict(steps, {s \in DOMAIN steps : steps[s] # p})
    /\ items' = Restrict(items, {i \in DOMAIN items : steps[items[i].step] # p})
    /\ last' = [op |-> "phase_delete", id |-> p]
    /\ UNCHANGED path
    /\ StatusUnchanged

\* ------------------------------------------------ the Path status requests
\* What a client may send as a status, "draft" being no choice of the API.
StatusPayloads == PathStatus \cup {"draft"}
\* What a client may send as a timestamp.
TimePayloads == {NULL} \cup Times
\* What a client may send as a progress_percentage.
ProgressPayloads == {0, 77}
\* What a client may send as the id of an Issue, RootCause or Initiative.
RefPayloads == {1, 2}

\* reactivation that keeps paused_at
Path_update_status_KeepsPaused(p, new_status, t) ==
    LET q == [p EXCEPT !.status = new_status] IN
    IF new_status = "active" /\ p.status # "active"
    THEN [q EXCEPT !.started_at = IF p.started_at = NULL THEN t ELSE @]
    ELSE IF new_status = "on_hold" THEN [q EXCEPT !.paused_at = t]
    ELSE IF new_status = "completed" THEN [q EXCEPT !.completed_at = t]
    ELSE q

\* started_at stamped on every request for active, whatever the old status
Path_update_status_AnyOldStatus(p, new_status, t) ==
    LET q == [p EXCEPT !.status = new_status] IN
    IF new_status = "active"
    THEN [q EXCEPT !.started_at = IF p.started_at = NULL THEN t ELSE @,
                   !.paused_at = NULL]
    ELSE IF new_status = "on_hold" THEN [q EXCEPT !.paused_at = t]
    ELSE IF new_status = "completed" THEN [q EXCEPT !.completed_at = t]
    ELSE q

\* paused_at and completed_at stamped only when they are unset
Path_update_status_StampOnce(p, new_status, t) ==
    LET q == [p EXCEPT !.status = new_status] IN
    IF new_status = "active" /\ p.status # "active"
    THEN [q EXCEPT !.started_at = IF p.started_at = NULL THEN t ELSE @,
                   !.paused_at = NULL]
    ELSE IF new_status = "on_hold"
    THEN [q EXCEPT !.paused_at = IF p.paused_at = NULL THEN t ELSE @]
    ELSE IF new_status = "completed"
    THEN [q EXCEPT !.completed_at = IF p.completed_at = NULL THEN t ELSE @]
    ELSE q

\* archiving that stamps completed_at
Path_update_status_ArchivedStamps(p, new_status, t) ==
    LET q == [p EXCEPT !.status = new_status] IN
    IF new_status = "active" /\ p.status # "active"
    THEN [q EXCEPT !.started_at = IF p.started_at = NULL THEN t ELSE @,
                   !.paused_at = NULL]
    ELSE IF new_status = "on_hold" THEN [q EXCEPT !.paused_at = t]
    ELSE IF new_status \in {"completed", "archived"} THEN [q EXCEPT !.completed_at = t]
    ELSE q

\* PathViewSet.update_status, after validation: the Path row it saves
Path_update_status(p, new_status, t) ==
    LET q == [p EXCEPT !.status = new_status] IN
    IF new_status = "active" /\ p.status # "active"
    THEN [q EXCEPT !.started_at = IF p.started_at = NULL THEN t ELSE @,
                   !.paused_at = NULL]
    ELSE IF new_status = "on_hold" THEN [q EXCEPT !.paused_at = t]
    ELSE IF new_status = "completed" THEN [q EXCEPT !.completed_at = t]
    ELSE q

\* a serializer without the archived choice
PathStatusUpdateSerializer_is_valid_NoArchived(s) == s \in PathStatus \ {"archived"}

\* PathStatusUpdateSerializer.is_valid
PathStatusUpdateSerializer_is_valid(s) == s \in PathStatus

PlanUnchanged == UNCHANGED <<phases, steps, items, req, tree, out, library, comments>>

\* a request that stores the status without validating it
PathUpdateStatus_SavesInvalid(data) ==
    /\ path' = Path_update_status(path, data.status, now)
    /\ last' = [op |-> "path_update_status", arg |-> data.status,
                val |-> data.progress_percentage,
                ok |-> PathStatusUpdateSerializer_is_valid(data.status),
                pre |-> path, at |-> now]
    /\ UNCHANGED now
    /\ PlanUnchanged

\* POST /paths/{id}/update_status/ with request data {status,
\* progress_percentage}: the serializer declares status alone, and a 400
\* leaves the Path as it was
PathUpdateStatus(data) ==
    /\ path' = IF PathStatusUpdateSerializer_is_valid(data.status)
               THEN Path_update_status(path, data.status, now) ELSE path
    /\ last' = [op |-> "path_update_status", arg |-> data.status,
                val |-> data.progress_percentage,
                ok |-> PathStatusUpdateSerializer_is_valid(data.status),
                pre |-> path, at |-> now]
    /\ UNCHANGED now
    /\ PlanUnchanged

\* a PathUpdateSerializer that lists progress_percentage
PathUpdateSerializer_fields_WithProgress ==
    {"status", "started_at", "completed_at", "paused_at", "progress_percentage"}

\* a PathUpdateSerializer that lists the chain
PathUpdateSerializer_fields_WithChain ==
    {"status", "started_at", "completed_at", "paused_at",
     "issue", "root_cause", "initiative"}

\* PathUpdateSerializer.Meta.fields, of the Path columns kept here
PathUpdateSerializer_fields == {"status", "started_at", "completed_at", "paused_at"}

\* PUT or PATCH /paths/{id}/ through PathUpdateSerializer with one field f
\* in the payload; a field the serializer does not list is dropped
PathUpdate(f, v) ==
    /\ \/ f = "status" /\ v \in PathStatus
       \/ f \in {"started_at", "paused_at", "completed_at"} /\ v \in TimePayloads
       \/ f = "progress_percentage" /\ v \in ProgressPayloads
       \/ f = "issue" /\ v \in library.issues
       \/ f = "root_cause" /\ v \in DOMAIN library.root_causes
       \/ f = "initiative" /\ v \in DOMAIN library.initiatives
    /\ path' = IF f \in PathUpdateSerializer_fields THEN [path EXCEPT ![f] = v] ELSE path
    /\ last' = [op |-> "path_update", arg |-> f, val |-> v, ok |-> TRUE,
                pre |-> path, at |-> now]
    /\ UNCHANGED now
    /\ PlanUnchanged

\* time passes between requests
Tick ==
    /\ now < MaxTime
    /\ now' = now + 1
    /\ UNCHANGED <<path, last>>
    /\ PlanUnchanged

\* POST /paths/ through PathCreateSerializer: the row made of the payload;
\* status and the chain are listed, the timestamps and progress_percentage
\* are not and keep the model's defaults
PathCreateSerializer_create(data) ==
    [NewPath(data.status) EXCEPT !.issue = data.issue, !.root_cause = data.root_cause,
                                 !.initiative = data.initiative]

\* the payloads of POST /paths/ over a library
CreatePayloads(lib) ==
    [status : PathStatus, progress_percentage : ProgressPayloads,
     issue : lib.issues, root_cause : DOMAIN lib.root_causes,
     initiative : DOMAIN lib.initiatives]

\* the record of a POST /paths/ just served
Created(data) ==
    [op |-> "path_create", arg |-> "progress_percentage",
     val |-> data.progress_percentage, ok |-> TRUE,
     pre |-> PathCreateSerializer_create(data), at |-> now]

\* The Path has just been created; its plan is made by the requests below.
InitStatus ==
    /\ now = 1
    /\ library = SeedLibrary
    /\ \E data \in CreatePayloads(library) :
           /\ path = PathCreateSerializer_create(data)
           /\ last = Created(data)
    /\ phases = {}
    /\ steps = <<>>
    /\ items = <<>>
    /\ req = <<>>
    /\ tree = <<>>
    /\ out = NoOutput
    /\ comments = <<>>

\* The Path's requests, and a plan of one Phase, one Step and one ActionItem
\* made and toggled beside them.
NextStatus ==
    \/ \E data \in [status : StatusPayloads, progress_percentage : ProgressPayloads] :
           PathUpdateStatus(data)
    \/ \E f \in {"status"}, v \in PathStatus : PathUpdate(f, v)
    \/ \E f \in {"started_at", "paused_at", "completed_at"}, v \in TimePayloads :
           PathUpdate(f, v)
    \/ \E f \in {"progress_percentage"}, v \in ProgressPayloads : PathUpdate(f, v)
    \/ \E f \in {"issue", "root_cause", "initiative"}, v \in RefPayloads : PathUpdate(f, v)
    \/ PhaseCreate(1)
    \/ StepCreate(1, 1)
    \/ ActionItemCreate(1, 1, "todo", NULL)
    \/ ActionItemToggleStatus(1)
    \/ Tick

SpecStatus == InitStatus /\ [][NextStatus]_vars

\* the last request was an accepted update_status to status s
StatusRequested(s) ==
    last.op = "path_update_status" /\ last.ok /\ last.arg = s

\* C8: update_status from on_hold with paused_at set to active leaves
\* paused_at unset, sets started_at when it was unset and leaves it as it
\* was when it was set.
C8_Reactivation ==
    (StatusRequested("active") /\ last.pre.status = "on_hold"
                               /\ last.pre.paused_at # NULL) =>
        /\ path.paused_at = NULL
        /\ path.started_at =
               IF last.pre.started_at = NULL THEN last.at ELSE last.pre.started_at

\* a paused Path started earlier is reactivated
C8_Witness ==
    /\ StatusRequested("active")
    /\ last.pre.status = "on_hold"
    /\ last.pre.paused_at # NULL
    /\ last.pre.started_at # NULL
    /\ last.pre.started_at < last.at
    /\ path.status = "active"
    /\ path.paused_at = NULL

\* C9 as claimed: update_status to active stamps an unset started_at with
\* the current time whatever the status was before, and never changes a
\* started_at that is set.
C9_StampedFromAnyStatus ==
    /\ StatusRequested("active") =>
           path.started_at =
               IF last.pre.started_at = NULL THEN last.at ELSE last.pre.started_at
    /\ (last.op = "path_update_status" /\ last.pre.started_at # NULL) =>
           path.started_at = last.pre.started_at

\* C9 amended: update_status stamps an unset started_at with the current
\* time when it sets the status to active from another status; a request
\* for active on a Path that is already active leaves started_at as it was;
\* no update_status changes a started_at that is set.
C9_StampedOnEnteringActive ==
    last.op = "path_update_status" =>
        path.started_at =
            IF /\ last.ok /\ last.arg = "active"
               /\ last.pre.status # "active" /\ last.pre.started_at = NULL
            THEN last.at ELSE last.pre.started_at

\* an active Path that never started is asked to be active again
C9_Witness ==
    /\ StatusRequested("active")
    /\ last.pre.status = "active"
    /\ last.pre.started_at = NULL
    /\ path.started_at = NULL

\* C10: update_status to on_hold sets paused_at to the current time and to
\* completed sets completed_at to the current time, from every prior status.
C10_StampsPausedAndCompleted ==
    /\ StatusRequested("on_hold") => path.paused_at = last.at
    /\ StatusRequested("completed") => path.completed_at = last.at

\* a Path on hold since an earlier time is put on hold again
C10_Witness ==
    /\ StatusRequested("on_hold")
    /\ last.pre.status = "on_hold"
    /\ last.pre.paused_at # NULL
    /\ last.pre.paused_at < last.at
    /\ path.paused_at = last.at

\* C11: update_status to archived changes the status alone: started_at,
\* paused_at, completed_at and progress_percentage (and every other column)
\* are what they were before the request.
C11_ArchivedOnlyStatus ==
    StatusRequested("archived") => path = [last.pre EXCEPT !.status = "archived"]

\* a completed Path with its three stamps set and its plan done is archived
C11_Witness ==
    /\ StatusRequested("archived")
    /\ last.pre.status = "completed"
    /\ last.pre.started_at # NULL
    /\ last.pre.paused_at # NULL
    /\ last.pre.completed_at # NULL
    /\ last.pre.completed_at < last.at
    /\ last.pre.progress_percentage = 100
    /\ path.status = "archived"

\* C12: update_status accepts every target status of the enumeration from
\* every current status, the current one included, and leaves the Path's
\* status equal to the target.
C12_EveryTransitionAccepted ==
    (last.op = "path_update_status" /\ last.arg \in PathStatus) =>
        /\ last.ok
        /\ path.status = last.arg

\* an archived Path is asked to be archived again
C12_Witness ==
    /\ StatusRequested("archived")
    /\ last.pre.status = "archived"
    /\ path.status = "archived"

\* C13: update_status with a status outside the enumeration fails, and the
\* stored Path is exactly what it was before the request.
C13_InvalidStatusRejected ==
    (last.op = "path_update_status" /\ last.arg \notin PathStatus) =>
        /\ ~last.ok
        /\ path = last.pre

\* "draft" is refused on a paused Path that has stamps and progress
C13_Witness ==
    /\ last.op = "path_update_status"
    /\ last.arg = "draft"
    /\ ~last.ok
    /\ last.pre.status = "on_hold"
    /\ last.pre.paused_at # NULL
    /\ last.pre.progress_percentage = 100
    /\ path.status = "on_hold"

\* C18: no payload of a Path request sets progress_percentage: a created
\* Path has the default 0, and after PUT, PATCH and update_status the stored
\* percentage is the one the rollup had left, whatever the payload carried.
C18_PayloadNeverSetsPercentage ==
    /\ last.op = "path_create" => path.progress_percentage = 0
    /\ last.op \in {"path_update", "path_update_status"} =>
           path.progress_percentage = last.pre.progress_percentage

\* a PATCH carrying progress_percentage 77 on a Path whose plan is done
C18_Witness ==
    /\ last.op = "path_update"
    /\ last.arg = "progress_percentage"
    /\ last.val = 77
    /\ last.pre.progress_percentage = 100
    /\ path.progress_percentage = 100

\* ------------------------------------------- the plan requests in sequence
InitItems ==
    /\ now = 1
    /\ path = NewPath("active")
    /\ phases = {}
    /\ steps = <<>>
    /\ items = <<>>
    /\ last = NoRequest
    /\ req = <<>>
    /\ tree = <<>>
    /\ out = NoOutput
    /\ library = SeedLibrary
    /\ comments = <<>>

NextItems ==
    \/ \E i \in ItemIds, s \in StepIds, st \in ItemStatus, c \in ItemTimePayloads :
           ActionItemCreate(i, s, st, c)
    \/ \E i \in ItemIds, s \in StepIds : ActionItemUpdate(i, "step", s)
    \/ \E i \in ItemIds, st \in ItemStatus : ActionItemUpdate(i, "status", st)
    \/ \E i \in ItemIds, c \in ItemTimePayloads : ActionItemUpdate(i, "completed_at", c)
    \/ \E i \in ItemIds : ActionItemToggleStatus(i)
    \/ \E i \in ItemIds, st \in ItemStatusPayloads : ActionItemUpdateStatus(i, st)
    \/ \E i \in ItemIds : ActionItemDelete(i)
    \/ \E p \in PhaseIds : PhaseCreate(p)
    \/ \E s \in StepIds, p \in PhaseIds : StepUpdate(s, p)
    \/ \E s \in StepIds, p \in PhaseIds : StepCreate(s, p)
    \/ \E s \in StepIds : StepDelete(s)
    \/ \E p \in PhaseIds : PhaseDelete(p)

SpecItems == InitItems /\ [][NextItems]_vars

\* C1: after any sequence of completed plan requests, the persisted
\* progress_percentage is the rollup of the Path's current ActionItems.
C1_PercentageIsRollup ==
    path.progress_percentage = Path_calculate_progress(StoredTree)

\* C7: after any sequence of ActionItem requests, an ActionItem's
\* completed_at is set if and only if its status is done.
C7_CompletedAtIffDone ==
    \A i \in DOMAIN items :
        (items[i].completed_at # NULL) <=> (items[i].status = "done")

\* C17: no request changes the step of an existing ActionItem or the phase
\* of an existing Step: a plan node stays where it was created.
C17_PositionFixed ==
    [][/\ \A i \in DOMAIN items \cap DOMAIN items' : items'[i].step = items[i].step
       /\ \A s \in DOMAIN steps \cap DOMAIN steps' : steps'[s] = steps[s]]_vars

\* C19: no plan request and no rollup changes the Path's status, started_at,
\* paused_at or completed_at; a Path whose percentage reaches 100 keeps its
\* status.
C19_StatusNotInferred ==
    [][/\ path'.status = path.status
       /\ path'.started_at = path.started_at
       /\ path'.paused_at = path.paused_at
       /\ path'.completed_at = path.completed_at]_vars

\* the last ActionItem is marked done and the active Path stands at 100
C19_Witness ==
    /\ last.op = "item_update_status"
    /\ DOMAIN items = ItemIds
    /\ \A i \in ItemIds : items[i].status = "done"
    /\ path.progress_percentage = 100
    /\ path.status = "active"
    /\ path.completed_at = NULL

\* C27: toggle_status turns a done ActionItem into todo with completed_at
\* unset and an ActionItem in any other status into done with completed_at
\* set to the current time; the Path's percentage is then the rollup of the
\* plan with the toggled item.
C27_ToggleBetweenTodoAndDone ==
    [][last'.op = "item_toggle_status" =>
          LET i == last'.id IN
          /\ i \in DOMAIN items
          /\ DOMAIN items' = DOMAIN items
          /\ items'[i].status \in {"todo", "done"}
          /\ items[i].status = "done" =>
                 items'[i].status = "todo" /\ items'[i].completed_at = NULL
          /\ items[i].status # "done" =>
                 items'[i].status = "done" /\ items'[i].completed_at = now
          /\ items'[i].step = items[i].step
          /\ \A j \in DOMAIN items \ {i} : items'[j] = items[j]
          /\ path'.progress_percentage =
                 Path_calculate_progress(TreeOf(phases', steps', items'))]_vars

\* an ActionItem was toggled back to todo beside one that is done, and the
\* Path stands at 50
C27_Witness ==
    /\ last.op = "item_toggle_status"
    /\ DOMAIN items = ItemIds
    /\ items[last.id].status = "todo"
    /\ items[last.id].completed_at = NULL
    /\ \E j \in ItemIds \ {last.id} : items[j].status = "done"
    /\ path.progress_percentage = 50

\* ------------------------------------------- requests that overlap in time
\* Two requests run query by query against the store, every query committed
\* on its own. Request r either completes the ActionItem r through
\* toggle_status or update_status, or creates a new ActionItem.
Requests == {1, 2}

\* the primary key of the ActionItem that request r creates
NewItemId(r) == NumItems + r

\* the row of ActionItem i as a query sees it: <<row>>, or <<>> when absent
Stored(i) == IF i \in DOMAIN items THEN <<items[i]>> ELSE <<>>

\* the ids of S in ascending order
RECURSIVE Ascending(_)
Ascending(S) ==
    IF S = {} THEN <<>>
    ELSE LET x == CHOOSE y \in S : \A z \in S : y <= z
         IN  <<x>> \o Ascending(S \ {x})

RECURSIVE Flatten(_)
Flatten(ss) == IF ss = <<>> THEN <<>> ELSE Head(ss) \o Flatten(Tail(ss))

\* The Steps in the order Path.calculate_progress visits them: the Phases
\* in order and, within each, its Steps in order.
StepsInOrder(ph, st) ==
    LET po == Ascending(ph)
    IN  Flatten([k \in 1..Len(po) |-> Ascending({s \in DOMAIN st : st[s] = po[k]})])

Idle(i) ==
    [pc |-> "start", target |-> i, op |-> "none", before |-> Stored(i), obj |-> items[i],
     todo |-> <<>>, total_items |-> 0, completed_items |-> 0]

OthersUnchanged == UNCHANGED <<now, phases, steps, last, tree, out, library, comments>>

\* self.get_object(), and the handler's changes to the object in memory
ReqGetObject(r, op) ==
    /\ req[r].pc = "start"
    /\ req' = [req EXCEPT ![r].pc = "save", ![r].op = op,
                          ![r].before = Stored(req[r].target),
                          ![r].obj = IF op = "toggle_status"
                                     THEN ActionItem_toggle_status(items[req[r].target], now)
                                     ELSE ActionItem_update_status(items[req[r].target], "done", now)]
    /\ UNCHANGED <<path, items>>
    /\ OthersUnchanged

\* POST /action-items/ {step, title, status}: the serializer builds the new
\* ActionItem in memory
ReqCreate(r, s, status) ==
    /\ req[r].pc = "start"
    /\ req' = [req EXCEPT ![r].pc = "save", ![r].op = "create",
                          ![r].target = NewItemId(r),
                          ![r].before = Stored(NewItemId(r)),
                          ![r].obj = [step |-> s, status |-> status,
                                      completed_at |-> NULL]]
    /\ UNCHANGED <<path, items>>
    /\ OthersUnchanged

\* ActionItem.save: super().save() writes the row (an INSERT for a new one)
ReqSaveItem(r) ==
    /\ req[r].pc = "save"
    /\ items' = (req[r].target :> req[r].obj) @@ items
    /\ req' = [req EXCEPT ![r].pc = "list"]
    /\ UNCHANGED path
    /\ OthersUnchanged

\* Path.calculate_progress: the Phases and Steps to visit
ReqListSteps(r) ==
    /\ req[r].pc = "list"
    /\ req' = [req EXCEPT ![r].todo = StepsInOrder(phases, steps),
                          ![r].total_items = 0, ![r].completed_items = 0,
                          ![r].pc = IF StepsInOrder(phases, steps) = <<>>
                                    THEN "persist" ELSE "count"]
    /\ UNCHANGED <<path, items>>
    /\ OthersUnchanged

\* total_items += items.count()
ReqCount(r) ==
    /\ req[r].pc = "count"
    /\ req' = [req EXCEPT ![r].total_items = @ + QCount(action_items(items, Head(req[r].todo))),
                          ![r].pc = "count_done"]
    /\ UNCHANGED <<path, items>>
    /\ OthersUnchanged

\* completed_items += items.filter(status=ItemStatus.DONE).count()
ReqCountDone(r) ==
    /\ req[r].pc = "count_done"
    /\ req' = [req EXCEPT ![r].completed_items =
                              @ + QDoneCount(action_items(items, Head(req[r].todo))),
                          ![r].todo = Tail(@),
                          ![r].pc = IF Tail(req[r].todo) = <<>> THEN "persist" ELSE "count"]
    /\ UNCHANGED <<path, items>>
    /\ OthersUnchanged

\* Path.update_progress: self.save(update_fields=['progress_percentage', ...])
ReqPersist(r) ==
    /\ req[r].pc = "persist"
    /\ path' = [path EXCEPT !.progress_percentage =
                                Percent(req[r].completed_items, req[r].total_items)]
    /\ req' = [req EXCEPT ![r].pc = "done"]
    /\ UNCHANGED items
    /\ OthersUnchanged

\* A query of the recomputation or the write of the percentage raises: the
\* request ends in an error, and what it committed before stays.
ReqFail(r) ==
    /\ req[r].pc \in {"list", "count", "count_done", "persist"}
    /\ req' = [req EXCEPT ![r].pc = "failed"]
    /\ UNCHANGED <<path, items>>
    /\ OthersUnchanged

InitConc ==
    /\ now = 1
    /\ phases = PhaseIds
    /\ steps \in [StepIds -> PhaseIds]
    /\ items \in [ItemIds -> [step : StepIds, status : {"todo", "done"},
                              completed_at : {NULL, now}]]
    /\ \A i \in ItemIds : (items[i].completed_at # NULL) <=> (items[i].status = "done")
    /\ path = Path_update_progress(NewPath("active"), TreeOf(phases, steps, items))
    /\ last = NoRequest
    /\ req = [r \in Requests |-> Idle(r)]
    /\ tree = <<>>
    /\ out = NoOutput
    /\ library = SeedLibrary
    /\ comments = <<>>

NextConc ==
    \/ \E r \in Requests, op \in {"toggle_status", "update_status"} : ReqGetObject(r, op)
    \/ \E r \in Requests, s \in StepIds, st \in {"todo", "done"} : ReqCreate(r, s, st)
    \/ \E r \in Requests : ReqSaveItem(r)
    \/ \E r \in Requests : ReqListSteps(r)
    \/ \E r \in Requests : ReqCount(r)
    \/ \E r \in Requests : ReqCountDone(r)
    \/ \E r \in Requests : ReqPersist(r)
    \/ \E r \in Requests : ReqFail(r)

SpecConc == InitConc /\ [][NextConc]_vars

\* C2: once two requests that each complete an ActionItem have both
\* returned, the persisted percentage is the rollup over the final
\* ActionItem states, under every interleaving.
C2_NoStalePercentage ==
    (\A r \in Requests : /\ req[r].pc = "done"
                          /\ req[r].op # "create"
                          /\ req[r].before[1].status # "done"
                          /\ req[r].obj.status = "done") =>
        path.progress_percentage = Path_calculate_progress(StoredTree)

\* C3: when the recomputation or the write of the percentage fails after
\* the ActionItem was written, either the item change and the new percentage
\* are both stored, or the item is as it was before the request.
C3_ItemAndPercentageTogether ==
    \A r \in Requests :
        req[r].pc = "failed" =>
            \/ Stored(req[r].target) = req[r].before
            \/ /\ Stored(req[r].target) = <<req[r].obj>>
               /\ path.progress_percentage = Path_calculate_progress(StoredTree)

\* C6: the persisted progress_percentage is in 0..100 in every reachable
\* state, requests that overlap included.
C6_PercentageInRange ==
    path.progress_percentage \in 0..100

\* ------------------------------------------- the library and the comments
IssueIds == {1, 2}
RootCauseIds == {1, 2}
InitiativeIds == {1, 2}
CommentIds == {1, 2}
\* What a client may send as a comment's author_id and content.
AuthorPayloads == {1, 2}
ContentPayloads == {"a", "b"}

\* Two Issues, each with one RootCause that has one Initiative.
ChainLibrary ==
    [issues |-> IssueIds, root_causes |-> [r \in RootCauseIds |-> r],
     initiatives |-> [n \in InitiativeIds |-> n]]

\* What a delete collects: the rows asked for and, by on_delete=CASCADE, the
\* RootCauses of the collected Issues and the Initiatives of the collected
\* RootCauses.
Collect(lib, I, R, N) ==
    LET rcs == R \cup {r \in DOMAIN lib.root_causes : lib.root_causes[r] \in I}
    IN  [issues |-> I, root_causes |-> rcs,
         initiatives |-> N \cup {n \in DOMAIN lib.initiatives : lib.initiatives[n] \in rcs}]

\* a Path that protects its Issue alone
Protected_IssueOnly(p, c) == p.issue \in c.issues

\* on_delete=PROTECT of Path.issue, Path.root_cause, Path.initiative: the
\* Path refers to a collected row, and the delete raises ProtectedError
Protected(p, c) ==
    \/ p.issue \in c.issues
    \/ p.root_cause \in c.root_causes
    \/ p.initiative \in c.initiatives

\* the library without the collected rows
Delete(lib, c) ==
    [issues |-> lib.issues \ c.issues,
     root_causes |-> Restrict(lib.root_causes, DOMAIN lib.root_causes \ c.root_causes),
     initiatives |-> Restrict(lib.initiatives, DOMAIN lib.initiatives \ c.initiatives)]

\* instance.delete() of the rows I, R, N: nothing is deleted when a
\* collected row is protected
LibraryDelete(op, id, I, R, N) ==
    LET c == Collect(library, I, R, N) IN
    /\ library' = IF Protected(path, c) THEN library ELSE Delete(library, c)
    /\ last' = [op |-> op, arg |-> id, ok |-> ~Protected(path, c), pre |-> library]
    /\ UNCHANGED <<now, path, phases, steps, items, req, tree, out, comments>>

\* DELETE /issues/{id}/
IssueDelete(i) ==
    /\ i \in library.issues
    /\ LibraryDelete("issue_delete", i, {i}, {}, {})

\* DELETE /root-causes/{id}/
RootCauseDelete(r) ==
    /\ r \in DOMAIN library.root_causes
    /\ LibraryDelete("root_cause_delete", r, {}, {r}, {})

\* DELETE /initiatives/{id}/
InitiativeDelete(n) ==
    /\ n \in DOMAIN library.initiatives
    /\ LibraryDelete("initiative_delete", n, {}, {}, {n})

CommentsOnly == UNCHANGED <<now, path, phases, steps, items, req, tree, out, library>>

\* POST /paths/{id}/add_comment/: the comment is created on this Path
PathAddComment(c, author_id, content) ==
    /\ c \notin DOMAIN comments
    /\ comments' = comments @@ (c :> [path |-> 1, author_id |-> author_id,
                                     content |-> content])
    /\ last' = [op |-> "path_add_comment", id |-> c]
    /\ CommentsOnly

\* PUT or PATCH /comments/{id}/ through PathCommentSerializer, one of
\* author_id and content in the payload
CommentUpdate(c, f, v) ==
    /\ c \in DOMAIN comments
    /\ \/ f = "author_id" /\ v \in AuthorPayloads
       \/ f = "content" /\ v \in ContentPayloads
    /\ comments' = [comments EXCEPT ![c][f] = v]
    /\ last' = [op |-> "comment_update", id |-> c]
    /\ CommentsOnly

\* DELETE /comments/{id}/
CommentDelete(c) ==
    /\ c \in DOMAIN comments
    /\ comments' = Restrict(comments, DOMAIN comments \ {c})
    /\ last' = [op |-> "comment_delete", id |-> c]
    /\ CommentsOnly

\* An active Path has just been created over any Issue, RootCause and
\* Initiative of the library.
InitLibrary ==
    /\ now = 1
    /\ library = ChainLibrary
    /\ \E data \in CreatePayloads(library) :
           /\ data.status = "active"
           /\ data.progress_percentage = 0
           /\ path = PathCreateSerializer_create(data)
           /\ last = Created(data)
    /\ phases = {}
    /\ steps = <<>>
    /\ items = <<>>
    /\ req = <<>>
    /\ tree = <<>>
    /\ out = NoOutput
    /\ comments = <<>>

NextLibrary ==
    \/ \E i \in IssueIds : IssueDelete(i)
    \/ \E r \in RootCauseIds : RootCauseDelete(r)
    \/ \E n \in InitiativeIds : InitiativeDelete(n)
    \/ \E f \in {"issue", "root_cause", "initiative"}, v \in RefPayloads : PathUpdate(f, v)
    \/ \E data \in [status : {"archived", "draft"}, progress_percentage : {0}] :
           PathUpdateStatus(data)
    \/ \E c \in CommentIds, a \in AuthorPayloads, t \in ContentPayloads :
           PathAddComment(c, a, t)
    \/ \E c \in CommentIds, a \in AuthorPayloads : CommentUpdate(c, "author_id", a)
    \/ \E c \in CommentIds, t \in ContentPayloads : CommentUpdate(c, "content", t)
    \/ \E c \in CommentIds : CommentDelete(c)

SpecLibrary == InitLibrary /\ [][NextLibrary]_vars

\* the row of kind k and id x is one the Path p refers to, directly or
\* through the RootCause or Initiative it refers to
RefersTo(lib, p, k, x) ==
    LET rc_of_initiative == lib.initiatives[p.initiative] IN
    IF k = "issue_delete"
    THEN \/ p.issue = x
         \/ lib.root_causes[p.root_cause] = x
         \/ lib.root_causes[rc_of_initiative] = x
    ELSE IF k = "root_cause_delete"
    THEN p.root_cause = x \/ rc_of_initiative = x
    ELSE p.initiative = x

\* C14: a delete of an Issue, RootCause or Initiative that the Path refers
\* to, directly or through the cascade, is rejected and deletes nothing; the
\* Path's issue, root_cause and initiative always exist.
C14_ReferencedNotDeleted ==
    /\ path.issue \in library.issues
    /\ path.root_cause \in DOMAIN library.root_causes
    /\ path.initiative \in DOMAIN library.initiatives
    /\ (/\ last.op \in {"issue_delete", "root_cause_delete", "initiative_delete"}
        /\ RefersTo(last.pre, path, last.op, last.arg)) =>
           /\ ~last.ok
           /\ library = last.pre

\* the delete of an Issue that is not the Path's own, but owns the Path's
\* RootCause, is rejected
C14_Witness ==
    /\ last.op = "issue_delete"
    /\ ~last.ok
    /\ path.issue # last.arg
    /\ library.root_causes[path.root_cause] = last.arg
    /\ library = last.pre

\* C15: no request on an existing Path (PUT, PATCH, update_status,
\* add_comment) changes its issue, root_cause or initiative.
C15_ChainImmutable ==
    [][/\ path'.issue = path.issue
       /\ path'.root_cause = path.root_cause
       /\ path'.initiative = path.initiative]_vars

\* a PATCH carrying another existing Issue left the Path's issue alone
C15_Witness ==
    /\ last.op = "path_update"
    /\ last.arg = "issue"
    /\ last.val \in library.issues
    /\ last.val # path.issue
    /\ path = last.pre

\* C16: no request changes the content, author or path of a PathComment,
\* and none removes it while its Path exists.
C16_CommentsAppendOnly ==
    [][\A c \in DOMAIN comments :
           c \in DOMAIN comments' /\ comments'[c] = comments[c]]_vars

\* ------------------------------------------------ the context of a Path
\* The due dates an ActionItem may carry: days from before the first today
\* to after the last one.
DueDates == 0 .. MaxTime + 1
NoDate == 0 - 1

\* The ActionItems in the order _build_path_context visits them: the Steps
\* in order and, within each, its ActionItems in order.
ItemsInOrder(ph, st, it) ==
    LET so == StepsInOrder(ph, st)
    IN  Flatten([k \in 1..Len(so) |-> Ascending({i \in DOMAIN it : it[i].step = so[k]})])

\* list.sort(key=due_date) of a list of ActionItems that have a due date:
\* stable, ascending
RECURSIVE InsertByDue(_, _, _)
InsertByDue(x, sorted, it) ==
    IF sorted = <<>> THEN <<x>>
    ELSE IF it[x].due_date < it[Head(sorted)].due_date THEN <<x>> \o sorted
    ELSE <<Head(sorted)>> \o InsertByDue(x, Tail(sorted), it)

RECURSIVE SortByDue(_, _)
SortByDue(seq, it) ==
    IF seq = <<>> THEN <<>>
    ELSE InsertByDue(seq[Len(seq)], SortByDue(SubSeq(seq, 1, Len(seq) - 1), it), it)

\* if item.due_date and item.status != ItemStatus.DONE
TracksDue(item) == item.due_date # NoDate /\ item.status # "done"

\* context['overdue_actions']
overdue_actions(it, order, today) ==
    SortByDue(SelectSeq(order, LAMBDA i : TracksDue(it[i]) /\ it[i].due_date < today), it)

\* an upcoming list that leaves the overdue items out
upcoming_due_NotOverdue(it, order, today) ==
    SortByDue(SelectSeq(order, LAMBDA i : TracksDue(it[i]) /\ ~(it[i].due_date < today)), it)

\* context['upcoming_due']
upcoming_due(it, order, today) ==
    SortByDue(SelectSeq(order, LAMBDA i : TracksDue(it[i])), it)

\* PathViewSet._build_path_context, its two due-date lists
BuildPathContext ==
    /\ ~out.ready
    /\ out' = [ready |-> TRUE,
               overdue_actions |-> overdue_actions(items, ItemsInOrder(phases, steps, items), now),
               upcoming_due |-> upcoming_due(items, ItemsInOrder(phases, steps, items), now)]
    /\ UNCHANGED <<now, path, phases, steps, items, last, req, tree, library, comments>>

\* A Path with two Phases of one Step each and ActionItems of any status
\* and due date, on any day.
InitContext ==
    /\ now \in Times
    /\ path = NewPath("active")
    /\ phases = PhaseIds
    /\ steps = [s \in StepIds |-> s]
    /\ items \in [ItemIds -> [step : StepIds, status : ItemStatus,
                              completed_at : {NULL},
                              due_date : {NoDate} \cup DueDates]]
    /\ last = NoRequest
    /\ req = <<>>
    /\ tree = <<>>
    /\ out = NoOutput
    /\ library = SeedLibrary
    /\ comments = <<>>

NextContext == BuildPathContext

SpecContext == InitContext /\ [][NextContext]_vars

\* the elements of a list, and whether it lists each of them once
Elements(seq) == {seq[k] : k \in 1..Len(seq)}
NoRepeat(seq) == Cardinality(Elements(seq)) = Len(seq)

\* C20: the overdue list holds exactly the ActionItems with a due date
\* before today and a status other than done, the upcoming list exactly
\* those with a due date and a status other than done; every overdue item is
\* upcoming too.
C20_OverdueAndUpcoming ==
    out.ready =>
        /\ Elements(out.overdue_actions) =
               {i \in DOMAIN items : /\ items[i].due_date # NoDate
                                     /\ items[i].due_date < now
                                     /\ items[i].status # "done"}
        /\ Elements(out.upcoming_due) =
               {i \in DOMAIN items : /\ items[i].due_date # NoDate
                                     /\ items[i].status # "done"}
        /\ NoRepeat(out.overdue_actions)
        /\ NoRepeat(out.upcoming_due)
        /\ Elements(out.overdue_actions) \subseteq Elements(out.upcoming_due)

\* an item due yesterday and todo is in both lists, one due yesterday and
\* done is in neither
C20_Witness ==
    /\ out.ready
    /\ \E i, j \in DOMAIN items :
           /\ items[i].due_date = now - 1 /\ items[i].status = "todo"
           /\ items[j].due_date = now - 1 /\ items[j].status = "done"
           /\ i \in Elements(out.overdue_actions) /\ i \in Elements(out.upcoming_due)
           /\ j \notin Elements(out.overdue_actions) /\ j \notin Elements(out.upcoming_due)

\* ------------------------------ the context built beside another request
\* The reads _build_path_context makes of the ActionItems, in the order it
\* makes them: for each Phase in order, phase.calculate_progress(), then for
\* each of its Steps in order the loop over step.action_items.  Every read
\* is a query of its own against the store as it then is.
ContextReads(ph, st) ==
    LET po == Ascending(ph) IN
    Flatten([k \in 1..Len(po) |->
        LET so == Ascending({s \in DOMAIN st : st[s] = po[k]}) IN
        <<[read |-> "progress", phase |-> po[k], step |-> NULL]>> \o
        [j \in 1..Len(so) |-> [read |-> "action_items", phase |-> po[k], step |-> so[j]]]])

\* the context before the loops: the counters at 0
EmptyContext(ph) ==
    [total_actions |-> 0, completed_actions |-> 0,
     phases |-> [p \in ph |-> [progress |-> 0, total_actions |-> 0,
                              completed_actions |-> 0]]]

\* one read of the builder and what it adds to the context: the Phase's
\* 'progress', or the counts of the Step's ActionItems, into the Phase's
\* and the global total_actions and completed_actions
ContextRead(rd, ctx, ph, st, it) ==
    IF rd.read = "progress"
    THEN [ctx EXCEPT !.phases[rd.phase].progress =
                         Phase_calculate_progress(TreeOf(ph, st, it)[rd.phase])]
    ELSE LET q == action_items(it, rd.step)
         IN  [ctx EXCEPT !.total_actions = @ + q.total,
                         !.completed_actions = @ + q.done,
                         !.phases[rd.phase].total_actions = @ + q.total,
                         !.phases[rd.phase].completed_actions = @ + q.done]

BuilderIdle == [pc |-> "idle"]

BuildUnchanged == UNCHANGED <<now, path, phases, steps, items, last, tree, library, comments>>

\* POST /paths/{id}/ai_query/: get_object, and _build_path_context begins
AiQueryGetObject ==
    /\ req.pc = "idle"
    /\ ~out.ready
    /\ req' = [pc |-> "build", todo |-> ContextReads(phases, steps),
               context |-> EmptyContext(phases)]
    /\ UNCHANGED out
    /\ BuildUnchanged

\* the next read of _build_path_context
BuildContextRead ==
    /\ req.pc = "build"
    /\ req.todo # <<>>
    /\ req' = [req EXCEPT !.todo = Tail(@),
                          !.context = ContextRead(Head(req.todo), @, phases, steps, items)]
    /\ UNCHANGED out
    /\ BuildUnchanged

\* return context
BuildContextReturn ==
    /\ req.pc = "build"
    /\ req.todo = <<>>
    /\ out' = [ready |-> TRUE, total_actions |-> req.context.total_actions,
               completed_actions |-> req.context.completed_actions,
               phases |-> req.context.phases]
    /\ req' = BuilderIdle
    /\ BuildUnchanged

\* A Path with two Phases, two Steps under any of them and todo ActionItems
\* under any Step; the percentage is the rollup's.
InitSnapshot ==
    /\ now = 1
    /\ path = NewPath("active")
    /\ phases = PhaseIds
    /\ steps \in [StepIds -> PhaseIds]
    /\ items \in [ItemIds -> [step : StepIds, status : {"todo"}, completed_at : {NULL}]]
    /\ last = NoRequest
    /\ req = BuilderIdle
    /\ tree = <<>>
    /\ out = NoOutput
    /\ library = SeedLibrary
    /\ comments = <<>>

\* One ai_query, read by read, and toggle_status requests of other clients
\* served between its reads.
NextSnapshot ==
    \/ AiQueryGetObject
    \/ BuildContextRead
    \/ BuildContextReturn
    \/ \E i \in ItemIds : ActionItemToggleStatus(i)

SpecSnapshot == InitSnapshot /\ [][NextSnapshot]_vars

\* the plan with the ActionItems of D done and the others todo
TreeWithDone(D) ==
    TreeOf(phases, steps,
           [i \in DOMAIN items |->
                [items[i] EXCEPT !.status = IF i \in D THEN "done" ELSE "todo"]])

\* C21: the context built while other requests modify ActionItems describes
\* one state of the tree: there is one assignment of statuses to the leaves
\* with which every Phase's progress, every Phase's completed and total
\* counts and the global completed and total counts all agree.
C21_ContextIsOneState ==
    out.ready =>
        \E D \in SUBSET DOMAIN items :
            LET tr == TreeWithDone(D) IN
            /\ \A p \in phases :
                   /\ out.phases[p].progress = Phase_calculate_progress(tr[p])
                   /\ out.phases[p].total_actions = PhaseTotal(tr[p])
                   /\ out.phases[p].completed_actions = PhaseDone(tr[p])
            /\ out.total_actions = PathTotal(tr)
            /\ out.completed_actions = PathDone(tr)

\* ---------------------- a Path status request beside an ActionItem request
\* PathViewSet.update_status in its two accesses to the store: get_object
\* reads the whole Path row; after validation the handler changes status and
\* stamps on the object in memory, and path.save(), without update_fields,
\* writes every column of that object.
PathUpdateStatusGetObject(data) ==
    /\ req.pc = "idle"
    /\ req' = [pc |-> IF PathStatusUpdateSerializer_is_valid(data.status)
                      THEN "loaded" ELSE "failed",
               data |-> data, obj |-> path]
    /\ UNCHANGED <<now, path, phases, steps, items, last, tree, out, library, comments>>

\* path.save() and the response
PathUpdateStatusSave ==
    /\ req.pc = "loaded"
    /\ path' = Path_update_status(req.obj, req.data.status, now)
    /\ last' = [op |-> "path_update_status", arg |-> req.data.status,
                val |-> req.data.progress_percentage, ok |-> TRUE,
                pre |-> req.obj, at |-> now]
    /\ req' = [req EXCEPT !.pc = "done"]
    /\ UNCHANGED <<now, phases, steps, items, tree, out, library, comments>>

\* A Path with two Phases of one Step each and ActionItems todo or done
\* under any Step, its percentage the rollup of them.
InitOverlap ==
    /\ now = 1
    /\ phases = PhaseIds
    /\ steps = [s \in StepIds |-> s]
    /\ items \in [ItemIds -> [step : StepIds, status : {"todo", "done"},
                              completed_at : {NULL, 1}]]
    /\ \A i \in ItemIds : items[i].completed_at # NULL <=> items[i].status = "done"
    /\ path = Path_update_progress(NewPath("active"), StoredTree)
    /\ last = NoRequest
    /\ req = BuilderIdle
    /\ tree = <<>>
    /\ out = NoOutput
    /\ library = SeedLibrary
    /\ comments = <<>>

\* One update_status request on the Path, and ActionItem requests of other
\* clients served before, between and after its two accesses.
NextOverlap ==
    \/ \E data \in [status : StatusPayloads, progress_percentage : {0}] :
           PathUpdateStatusGetObject(data)
    \/ PathUpdateStatusSave
    \/ \E i \in ItemIds : ActionItemToggleStatus(i)
    \/ \E i \in ItemIds, st \in ItemStatus : ActionItemUpdateStatus(i, st)

SpecOverlap == InitOverlap /\ [][NextOverlap]_vars

\* C28: once an update_status request on the Path and the ActionItem
\* requests it overlapped with have returned, the persisted percentage is
\* the rollup of the current ActionItems and the persisted status is the
\* requested one.
C28_StatusWriteKeepsPercentage ==
    req.pc = "done" =>
        /\ path.progress_percentage = Path_calculate_progress(StoredTree)
        /\ path.status = req.data.status

\* -------------------------------------------------------- the query router
\* A query is a Python string, held as the sequence of its characters.
\* What clients may send: up to MaxWords of these fragments, one space
\* between two.  Among them a keyword of every category, words that hold a
\* keyword of another category inside them, and a word with none.
QueryWords ==
    {<<"s", "t", "a", "t", "u", "s">>,
     <<"b", "l", "o", "c", "k">>,
     <<"d", "u", "e">>,
     <<"d", "o", "n", "e">>,
     <<"w", "h", "o">>,
     <<"p", "l", "a", "n">>,
     <<"t", "a", "s", "k">>,
     <<"w", "h", "e", "n">>,
     <<"w", "h", "y">>,
     <<"r", "o", "o", "t">>,
     <<"k", "e", "y">>,
     <<"h", "e", "l", "p">>,
     <<"w", "a", "i", "t">>,
     <<"l", "e", "s", "s", "o", "n">>,
     <<"f", "u", "l", "l">>,
     <<"i", "s", "s", "u", "e">>,
     <<"s", "u", "c", "c", "e", "s", "s">>,
     <<"o", "v", "e", "r", "d", "u", "e">>,
     <<"c", "h", "a", "l", "l", "e", "n", "g", "e">>,
     <<"r", "e", "c", "o", "m", "m", "e", "n", "d">>,
     <<"s", "h", "o", "w">>,
     <<"t", "e", "l", "l", " ", "m", "e", " ", "a", "b", "o", "u", "t">>,
     <<"h", "e", "l", "l", "o">>,
     <<"S", "t", "a", "t", "u", "s">>}

RECURSIVE QueriesOf(_)
QueriesOf(n) ==
    IF n = 0 THEN {<<>>}
    ELSE LET S == QueriesOf(n - 1)
         IN  S \cup {IF q = <<>> THEN w ELSE q \o <<" ">> \o w : q \in S, w \in QueryWords}

Queries == QueriesOf(MaxWords)

\* str.lower(), of the letters A to Z
str_lower(s) ==
    LET upper == <<"A", "B", "C", "D", "E", "F", "G", "H", "I", "J", "K", "L", "M", "N", "O", "P", "Q", "R", "S", "T", "U", "V", "W", "X", "Y", "Z">>
        lower == <<"a", "b", "c", "d", "e", "f", "g", "h", "i", "j", "k", "l", "m", "n", "o", "p", "q", "r", "s", "t", "u", "v", "w", "x", "y", "z">>
    IN  [i \in 1..Len(s) |->
            IF \E k \in 1..26 : upper[k] = s[i]
            THEN lower[CHOOSE k \in 1..26 : upper[k] = s[i]]
            ELSE s[i]]

\* word in query: the query has the word as a substring
In(word, query) ==
    \E i \in 1..(Len(query) - Len(word) + 1) :
        SubSeq(query, i, i + Len(word) - 1) = word

\* any(word in query for word in words)
AnyIn(words, query) == \E k \in 1..Len(words) : In(words[k], query)

\* The keyword lists of _generate_ai_response, in the order of its tests.

status_words ==
    <<<<"s", "t", "a", "t", "u", "s">>,
      <<"p", "r", "o", "g", "r", "e", "s", "s">>,
      <<"o", "v", "e", "r", "v", "i", "e", "w">>, <<"h", "o", "w">>,
      <<"d", "o", "i", "n", "g">>, <<"g", "o", "i", "n", "g">>>>

blockers_words ==
    <<<<"b", "l", "o", "c", "k">>, <<"i", "s", "s", "u", "e">>,
      <<"p", "r", "o", "b", "l", "e", "m">>, <<"s", "t", "u", "c", "k">>,
      <<"r", "i", "s", "k">>,
      <<"c", "h", "a", "l", "l", "e", "n", "g", "e">>>>

deadlines_words ==
    <<<<"d", "u", "e">>, <<"d", "e", "a", "d", "l", "i", "n", "e">>,
      <<"u", "p", "c", "o", "m", "i", "n", "g">>, <<"s", "o", "o", "n">>,
      <<"o", "v", "e", "r", "d", "u", "e">>, <<"l", "a", "t", "e">>>>

accomplishments_words ==
    <<<<"a", "c", "c", "o", "m", "p", "l", "i", "s", "h">>,
      <<"d", "o", "n", "e">>, <<"c", "o", "m", "p", "l", "e", "t", "e">>,
      <<"f", "i", "n", "i", "s", "h">>, <<"s", "o", "l", "v", "e", "d">>,
      <<"a", "c", "h", "i", "e", "v", "e">>,
      <<"s", "u", "c", "c", "e", "s", "s">>>>

team_words ==
    <<<<"t", "e", "a", "m">>, <<"w", "h", "o">>,
      <<"a", "s", "s", "i", "g", "n", "e", "e">>,
      <<"m", "e", "m", "b", "e", "r">>, <<"p", "e", "r", "s", "o", "n">>,
      <<"p", "e", "o", "p", "l", "e">>,
      <<"w", "o", "r", "k", "l", "o", "a", "d">>>>

phases_words ==
    <<<<"p", "h", "a", "s", "e">>, <<"s", "t", "a", "g", "e">>,
      <<"p", "l", "a", "n">>,
      <<"i", "m", "p", "l", "e", "m", "e", "n", "t", "a", "t", "i", "o", "n">>>>

steps_words ==
    <<<<"s", "t", "e", "p">>, <<"t", "a", "s", "k">>,
      <<"a", "c", "t", "i", "o", "n">>,
      <<"a", "c", "t", "i", "v", "i", "t", "y">>>>

timeline_words ==
    <<<<"t", "i", "m", "e", "l", "i", "n", "e">>,
      <<"d", "u", "r", "a", "t", "i", "o", "n">>, <<"t", "i", "m", "e">>,
      <<"l", "o", "n", "g">>, <<"s", "t", "a", "r", "t">>, <<"e", "n", "d">>,
      <<"w", "h", "e", "n">>>>

goal_words ==
    <<<<"g", "o", "a", "l">>, <<"p", "u", "r", "p", "o", "s", "e">>,
      <<"w", "h", "y">>, <<"o", "b", "j", "e", "c", "t", "i", "v", "e">>,
      <<"a", "i", "m">>, <<"t", "a", "r", "g", "e", "t">>>>

issue_chain_words ==
    <<<<"i", "s", "s", "u", "e">>, <<"r", "o", "o", "t">>,
      <<"c", "a", "u", "s", "e">>,
      <<"i", "n", "i", "t", "i", "a", "t", "i", "v", "e">>,
      <<"o", "r", "i", "g", "i", "n">>, <<"s", "o", "u", "r", "c", "e">>,
      <<"f", "e", "e", "d", "b", "a", "c", "k">>>>

success_factors_words ==
    <<<<"s", "u", "c", "c", "e", "s", "s">>,
      <<"f", "a", "c", "t", "o", "r">>, <<"k", "e", "y">>,
      <<"c", "r", "i", "t", "i", "c", "a", "l">>,
      <<"i", "m", "p", "o", "r", "t", "a", "n", "t">>>>

improvements_words ==
    <<<<"i", "m", "p", "r", "o", "v", "e">>,
      <<"b", "e", "t", "t", "e", "r">>,
      <<"r", "e", "c", "o", "m", "m", "e", "n", "d">>,
      <<"s", "u", "g", "g", "e", "s", "t">>,
      <<"a", "d", "v", "i", "c", "e">>, <<"h", "e", "l", "p">>,
      <<"o", "p", "t", "i", "m", "i", "z", "e">>>>

on_hold_words ==
    <<<<"h", "o", "l", "d">>, <<"p", "a", "u", "s", "e">>,
      <<"s", "t", "o", "p">>, <<"w", "a", "i", "t">>,
      <<"d", "e", "l", "a", "y">>>>

learnings_words ==
    <<<<"l", "e", "a", "r", "n">>, <<"i", "n", "s", "i", "g", "h", "t">>,
      <<"t", "a", "k", "e", "a", "w", "a", "y">>,
      <<"l", "e", "s", "s", "o", "n">>>>

full_summary_words ==
    <<<<"s", "u", "m", "m", "a", "r", "y">>,
      <<"e", "v", "e", "r", "y", "t", "h", "i", "n", "g">>,
      <<"a", "l", "l">>, <<"f", "u", "l", "l">>,
      <<"d", "e", "t", "a", "i", "l">>,
      <<"t", "e", "l", "l", " ", "m", "e", " ", "a", "b", "o", "u", "t">>>>

\* a router that tests the blockers keywords before the status keywords
generate_ai_response_BlockersFirst(query) ==
    IF AnyIn(blockers_words, query) THEN "_response_blockers"
    ELSE IF AnyIn(status_words, query) THEN "_response_status_overview"
    ELSE IF AnyIn(deadlines_words, query) THEN "_response_deadlines"
    ELSE IF AnyIn(accomplishments_words, query) THEN "_response_accomplishments"
    ELSE IF AnyIn(team_words, query) THEN "_response_team"
    ELSE IF AnyIn(phases_words, query) THEN "_response_phases"
    ELSE IF AnyIn(steps_words, query) THEN "_response_steps"
    ELSE IF AnyIn(timeline_words, query) THEN "_response_timeline"
    ELSE IF AnyIn(goal_words, query) THEN "_response_goal"
    ELSE IF AnyIn(issue_chain_words, query) THEN "_response_issue_chain"
    ELSE IF AnyIn(success_factors_words, query) THEN "_response_success_factors"
    ELSE IF AnyIn(improvements_words, query) THEN "_response_improvements"
    ELSE IF AnyIn(on_hold_words, query) THEN "_response_on_hold"
    ELSE IF AnyIn(learnings_words, query) THEN "_response_learnings"
    ELSE IF AnyIn(full_summary_words, query) THEN "_response_full_summary"
    ELSE "_response_default"

\* _generate_ai_response: the renderer the chain of tests calls, by name
generate_ai_response(query) ==
    IF AnyIn(status_words, query) THEN "_response_status_overview"
    ELSE IF AnyIn(blockers_words, query) THEN "_response_blockers"
    ELSE IF AnyIn(deadlines_words, query) THEN "_response_deadlines"
    ELSE IF AnyIn(accomplishments_words, query) THEN "_response_accomplishments"
    ELSE IF AnyIn(team_words, query) THEN "_response_team"
    ELSE IF AnyIn(phases_words, query) THEN "_response_phases"
    ELSE IF AnyIn(steps_words, query) THEN "_response_steps"
    ELSE IF AnyIn(timeline_words, query) THEN "_response_timeline"
    ELSE IF AnyIn(goal_words, query) THEN "_response_goal"
    ELSE IF AnyIn(issue_chain_words, query) THEN "_response_issue_chain"
    ELSE IF AnyIn(success_factors_words, query) THEN "_response_success_factors"
    ELSE IF AnyIn(improvements_words, query) THEN "_response_improvements"
    ELSE IF AnyIn(on_hold_words, query) THEN "_response_on_hold"
    ELSE IF AnyIn(learnings_words, query) THEN "_response_learnings"
    ELSE IF AnyIn(full_summary_words, query) THEN "_response_full_summary"
    ELSE "_response_default"

\* The ids of S as `.order_by('order')` may return their rows: ascending in
\* order, and rows of equal order in any sequence, for the explicit order_by
\* replaces Meta.ordering and leaves created_at out of the ORDER BY.
RECURSIVE order_by_order(_, _)
order_by_order(S, it) ==
    IF S = {} THEN {<<>>}
    ELSE LET first == {i \in S : \A j \in S : it[i].order <= it[j].order}
         IN  UNION {{<<i>> \o rest : rest \in order_by_order(S \ {i}, it)} : i \in first}

\* The sequences in which the loops of _build_path_context may visit the
\* ActionItems: the Steps so in turn, the items of each as order_by gives
\* them.
RECURSIVE Visits(_, _)
Visits(so, it) ==
    IF so = <<>> THEN {<<>>}
    ELSE {a \o b : a \in order_by_order({i \in DOMAIN it : it[i].step = Head(so)}, it),
                   b \in Visits(Tail(so), it)}

\* _build_path_context: the lists of the context, for a visit of the items
\* in the sequence order.  An item_data is held by the id of its item.
PathContext(it, order, today) ==
    [action_items |-> order,
     blocked_actions |-> SelectSeq(order, LAMBDA i : it[i].status = "blocked"),
     in_progress_actions |-> SelectSeq(order, LAMBDA i : it[i].status = "in_progress"),
     overdue_actions |-> overdue_actions(it, order, today),
     upcoming_due |-> upcoming_due(it, order, today)]

\* len(ctx['in_progress_actions']) > 5 and ctx['blocked_actions'][:5]
InProgressRisk == 5
MaxListed == 5

\* A response is held as the list of its pieces of text, each with the item
\* and the number its f-string puts into it.
Part(text, item, n) == [text |-> text, item |-> item, n |-> n]

\* seq[:n]
Take(seq, n) == SubSeq(seq, 1, IF Len(seq) < n THEN Len(seq) ELSE n)

\* the heading of _response_blockers and its two sentences without blockers
NoBlockersText ==
    <<Part("Blockers & Risks", NULL, 0),
      Part("No current blockers or overdue items!", NULL, 0),
      Part("All tasks are on track.", NULL, 0)>>

\* the sentence on the items in progress
PotentialRisk(n) ==
    Part("Potential risk: {n} items are in progress simultaneously.", NULL, n)

\* a renderer that warns from five items in progress on
response_blockers_RiskFromFive(it, ctx, today) ==
    IF ctx.blocked_actions = <<>> /\ ctx.overdue_actions = <<>>
    THEN NoBlockersText \o
         (IF Len(ctx.in_progress_actions) >= InProgressRisk
          THEN <<PotentialRisk(Len(ctx.in_progress_actions))>> ELSE <<>>)
    ELSE <<Part("Blockers & Risks", NULL, 0)>>

\* _response_blockers
response_blockers(it, ctx, today) ==
    LET blocked == ctx.blocked_actions
        overdue == ctx.overdue_actions
    IN
    IF blocked = <<>> /\ overdue = <<>>
    THEN NoBlockersText \o
         (IF Len(ctx.in_progress_actions) > InProgressRisk
          THEN <<PotentialRisk(Len(ctx.in_progress_actions))>> ELSE <<>>)
    ELSE <<Part("Blockers & Risks", NULL, 0)>> \o
         (IF blocked # <<>>
          THEN <<Part("Blocked Tasks ({n})", NULL, Len(blocked))>> \o
               [k \in 1..Len(Take(blocked, MaxListed)) |->
                    Part("{n}. {title}, {phase}, {step}, {assignee}", blocked[k], k)] \o
               (IF Len(blocked) > MaxListed
                THEN <<Part("... and {n} more", NULL, Len(blocked) - MaxListed)>>
                ELSE <<>>)
          ELSE <<>>) \o
         (IF overdue # <<>>
          THEN <<Part("Overdue Tasks ({n})", NULL, Len(overdue))>> \o
               [k \in 1..Len(Take(overdue, MaxListed)) |->
                    Part("{title} - {n} days overdue, {assignee}", overdue[k],
                         today - it[overdue[k]].due_date)]
          ELSE <<>>)

\* The response of ai_query: which renderer _generate_ai_response calls and,
\* of _response_blockers, the text; of the other renderers the name alone is
\* kept.
ai_query_response(query, it, ctx, today) ==
    LET renderer == generate_ai_response(query)
    IN  [renderer |-> renderer,
         text |-> IF renderer = "_response_blockers"
                  THEN response_blockers(it, ctx, today) ELSE <<>>]

\* POST /paths/{id}/ai_query/ with the query q: the query is lower-cased,
\* the context built, the response rendered; nothing is written
AiQuery(q) ==
    /\ \E order \in Visits(StepsInOrder(phases, steps), items) :
           LET query == str_lower(q)
               ctx == PathContext(items, order, now)
           IN  out' = [ready |-> TRUE, query |-> query, context |-> ctx,
                       response |-> ai_query_response(query, items, ctx, now)]
    /\ UNCHANGED <<now, path, phases, steps, items, last, req, tree, library, comments>>

\* the rows of n ActionItems of one Step, in the order of their creation
PlanRows(n, status, due_date, order, created_at) ==
    [i \in 1..n |->
        [step |-> 1, status |-> status[i],
         completed_at |-> IF status[i] = "done" THEN 1 ELSE NULL,
         due_date |-> due_date[i], order |-> order[i], created_at |-> created_at[i]]]

\* an active Path with one Phase, one Step and the ActionItems it
InitPlan(it) ==
    /\ now = 1
    /\ path = Path_update_progress(NewPath("active"), TreeOf({1}, 1 :> 1, it))
    /\ phases = {1}
    /\ steps = 1 :> 1
    /\ items = it
    /\ last = NoRequest
    /\ req = <<>>
    /\ tree = <<>>
    /\ out = NoOutput
    /\ library = SeedLibrary
    /\ comments = <<>>

\* ---------------------------------- one query of any wording, routed
InitRouter == InitPlan(<<>>)

NextRouter == \E q \in Queries : ~out.ready /\ AiQuery(q)

SpecRouter == InitRouter /\ [][NextRouter]_vars

\* the categories in their declared order, with the renderer and the
\* keywords of each
DeclaredOrder ==
    <<[renderer |-> "_response_status_overview", words |-> status_words],
      [renderer |-> "_response_blockers", words |-> blockers_words],
      [renderer |-> "_response_deadlines", words |-> deadlines_words],
      [renderer |-> "_response_accomplishments", words |-> accomplishments_words],
      [renderer |-> "_response_team", words |-> team_words],
      [renderer |-> "_response_phases", words |-> phases_words],
      [renderer |-> "_response_steps", words |-> steps_words],
      [renderer |-> "_response_timeline", words |-> timeline_words],
      [renderer |-> "_response_goal", words |-> goal_words],
      [renderer |-> "_response_issue_chain", words |-> issue_chain_words],
      [renderer |-> "_response_success_factors", words |-> success_factors_words],
      [renderer |-> "_response_improvements", words |-> improvements_words],
      [renderer |-> "_response_on_hold", words |-> on_hold_words],
      [renderer |-> "_response_learnings", words |-> learnings_words],
      [renderer |-> "_response_full_summary", words |-> full_summary_words]>>

\* C22: the response to a lower-cased query is rendered by the first
\* category, in the declared order, that has a keyword contained in the
\* query, and by the default template when none has; a query with both
\* 'status' and 'block' in it gets the status template.
C22_FirstCategoryWins ==
    out.ready =>
        LET hits == {k \in 1..Len(DeclaredOrder) :
                        \E w \in Elements(DeclaredOrder[k].words) : In(w, out.query)}
        IN  /\ out.query = str_lower(out.query)
            /\ out.response.renderer =
                   IF hits = {} THEN "_response_default"
                   ELSE DeclaredOrder[CHOOSE k \in hits : \A j \in hits : k <= j].renderer
            /\ (In(<<"s", "t", "a", "t", "u", "s">>, out.query) /\
                In(<<"b", "l", "o", "c", "k">>, out.query)) =>
                   out.response.renderer = "_response_status_overview"

\* 'block status', with the blockers keyword first in the query, got the
\* status template
C22_Witness ==
    /\ out.ready
    /\ out.query = <<"b", "l", "o", "c", "k", " ", "s", "t", "a", "t", "u", "s">>
    /\ out.response.renderer = "_response_status_overview"

\* ------------------------------ a blockers query over a plan of any size
BlockersQueries ==
    {<<"w", "h", "a", "t", "'", "s", " ", "b", "l", "o", "c", "k", "i", "n", "g", " ",
       "t", "h", "i", "s", "?">>,
     <<"r", "i", "s", "k">>}

\* Up to MaxPlan ActionItems, each todo, in progress or blocked, with orders
\* that differ; at most one of them was due yesterday, the others have no
\* due date.
InitBlockers ==
    \E n \in 0..MaxPlan :
        \E status \in [1..n -> {"todo", "in_progress", "blocked"}], late \in 0..n :
            InitPlan(PlanRows(n, status, [i \in 1..n |-> IF i = late THEN 0 ELSE NoDate],
                              [i \in 1..n |-> i], [i \in 1..n |-> 1]))

NextBlockers == \E q \in BlockersQueries : ~out.ready /\ AiQuery(q)

SpecBlockers == InitBlockers /\ [][NextBlockers]_vars

\* the Path has no blocked ActionItem and no overdue one
NothingBlocksOrIsOverdue ==
    \A i \in DOMAIN items :
        /\ items[i].status # "blocked"
        /\ ~(items[i].due_date # NoDate /\ items[i].due_date < now /\ items[i].status # "done")

NumberInProgress == Cardinality({i \in DOMAIN items : items[i].status = "in_progress"})

\* C23 as claimed: for a query routed to the blockers category over a Path
\* with no blocked and no overdue ActionItem, the response is exactly the
\* fixed no-blockers text, whatever the rest of the context.
C23_NoBlockersVerbatim ==
    (out.ready /\ out.response.renderer = "_response_blockers"
               /\ NothingBlocksOrIsOverdue) =>
        out.response.text = NoBlockersText

\* C23: for a query routed to the blockers category over a Path with no
\* blocked and no overdue ActionItem, the response is the fixed no-blockers
\* text, followed by the potential-risk sentence with the number of items in
\* progress when more than 5 are in progress, and by nothing otherwise.
C23_NoBlockersThenRisk ==
    (out.ready /\ out.response.renderer = "_response_blockers"
               /\ NothingBlocksOrIsOverdue) =>
        /\ SubSeq(out.response.text, 1, 3) = NoBlockersText
        /\ IF NumberInProgress > 5
           THEN /\ Len(out.response.text) = 4
                /\ out.response.text[4] = PotentialRisk(NumberInProgress)
           ELSE Len(out.response.text) = 3

\* five items in progress and one todo, none blocked or overdue: the text
\* is the fixed one
C23_Witness ==
    /\ out.ready
    /\ out.response.renderer = "_response_blockers"
    /\ NothingBlocksOrIsOverdue
    /\ NumberInProgress = 5
    /\ Cardinality(DOMAIN items) = 6
    /\ out.response.text = NoBlockersText

\* ------------------------- queries repeated over a plan with equal orders
ListingQueries == {<<"s", "t", "u", "c", "k">>, <<"h", "e", "l", "l", "o">>}

\* NumItems ActionItems of any status and due date, with orders that may be
\* equal, each created on the first day or the day before.
InitListing ==
    \E status \in [ItemIds -> ItemStatus],
       due_date \in [ItemIds -> {NoDate} \cup DueDates],
       order \in [ItemIds -> {0, 1}],
       created_at \in [ItemIds -> {0, 1}] :
        InitPlan(PlanRows(NumItems, status, due_date, order, created_at))

\* The same clients ask again, on the same day or a later one; the stored
\* Path and plan are never written.
NextListing ==
    \/ \E q \in ListingQueries : AiQuery(q)
    \/ Tick

SpecListing == InitListing /\ [][NextListing]_vars

\* C24: an ai_query with the query of the one before it, over the same
\* stored Path, plan and linked entities, returns the same text, and
\* modifies no stored entity.
C24_SameQuerySameText ==
    [][(out.ready /\ out'.ready /\ out'.query = out.query) =>
           /\ out'.response = out.response
           /\ UNCHANGED <<path, phases, steps, items, library, comments>>]_vars

\* C26: in the context built for a Path, of two sibling ActionItems with
\* the same order the one created earlier is listed first.
C26_TiesByCreation ==
    out.ready =>
        \A a, b \in 1..Len(out.context.action_items) :
            LET x == items[out.context.action_items[a]]
                y == items[out.context.action_items[b]]
            IN  (a < b /\ x.step = y.step /\ x.order = y.order) =>
                    x.created_at <= y.created_at

\* ----------------------------------------------- a bulk status update
\* The ids a client may list: the Path's ActionItems and one of another
\* Path.
BulkIds == ItemIds \cup {NumItems + 1}

\* A request for a bulk status update of the ActionItems ids.  The router
\* registers ActionItemViewSet, whose actions beside the ModelViewSet ones
\* are toggle_status and update_status, each on one item, and PathViewSet
\* has none on ActionItems: no view serves the request, it is answered with
\* an error and nothing is written.
BulkUpdateStatus(ids, status) ==
    /\ last' = [op |-> "bulk_update_status", ids |-> ids, status |-> status,
                ok |-> FALSE, updated |-> 0]
    /\ UNCHANGED <<now, path, phases, steps, items, req, tree, out, library, comments>>

NextBulk ==
    \/ \E ids \in SUBSET BulkIds, status \in ItemStatus : BulkUpdateStatus(ids, status)
    \/ \E i \in ItemIds, status \in ItemStatus : ActionItemUpdateStatus(i, status)

SpecBulk == InitOverlap /\ [][NextBulk]_vars

\* C25: a bulk status update applies the status, with the completed_at
\* side effect, to the listed ids that are ActionItems of the Path, ignores
\* the others without error, and returns the number updated with the Path's
\* new percentage, which is the rollup of the updated plan.
C25_BulkUpdatesOwnLeaves ==
    last.op = "bulk_update_status" =>
        /\ last.ok
        /\ last.updated = Cardinality(last.ids \cap DOMAIN items)
        /\ \A i \in last.ids \cap DOMAIN items :
               /\ items[i].status = last.status
               /\ items[i].completed_at # NULL <=> last.status = "done"
        /\ path.progress_percentage = Path_calculate_progress(StoredTree)

\* --------------------------------------- what holds of every stored Path
\* C29: a Path with status on_hold has paused_at set and a Path with status
\* completed has completed_at set, whichever request set the status.
C29_StampsFollowStatus ==
    /\ path.status = "on_hold" => path.paused_at # NULL
    /\ path.status = "completed" => path.completed_at # NULL

\* C30: the Path's root_cause is a RootCause of the Path's issue and the
\* Path's initiative is an Initiative of the Path's root_cause.
C30_ChainConsistent ==
    /\ library.root_causes[path.root_cause] = path.issue
    /\ library.initiatives[path.initiative] = path.root_cause

====
